---------------------------- MODULE Spec2Model ----------------------------
(***************************************************************************)
(* PartialFile (src/src/transfers/partial_file.cpp): a writer that streams *)
(* bytes into a contiguous extent of a USB mass-storage device, one sector *)
(* at a time, through a fixed pool of sector buffers (SectorPool) whose    *)
(* slots are released by the block layer's completion callback.            *)
(*                                                                         *)
(* Two contexts run: the single writer thread (seek / write / sync), whose *)
(* position inside a call is pc, and the completion context (Finished).    *)
(***************************************************************************)
EXTENDS Integers, FiniteSets, Sequences, TLC

\* ---------------------------------------------------------------- constants

\* PartialFile::SECTOR_SIZE, asserted equal to FF_MAX_SS and FF_MIN_SS.
SECTOR_SIZE == 512

\* SectorPool::size, the number of slots of the pool.  partial_file.hpp sets
\* it; the model takes it as a parameter.
PoolSize == 2

\* Width of slot_mask (uint32_t).
MaskBits == 32

\* Largest extent of the model, in sectors.
MaxSectors == 3

\* Number of bytes the last sector of the extent may fall short of a full one.
ShortBy == 24

\* In-sector position used by seeks and partial writes.
Delta == 100

\* Number of calls (seek, write, sync) the writer makes, against a device that
\* may fail and complete requests at any time.
MaxCalls == 3

\* Number of calls the writer makes against a device that completes every
\* request at once.
MaxQuietCalls == 4

\* Number of write calls a sequential fill of the extent is split into, at most.
MaxFillCalls == 6

\* Width in bits of size_t in the runs of has_valid_tail.
SizeBits == 4

NULL == -1

Slots == 0 .. (PoolSize - 1)

Min(a, b) == IF a < b THEN a ELSE b

Max(a, b) == IF a > b THEN a ELSE b

\* Extents of the model: whole sectors, and extents ending inside a sector.
TotalSizes == { s * SECTOR_SIZE - d : s \in 1 .. MaxSectors, d \in {0, ShortBy} }

\* The extents of less than MaxSectors sectors.
SmallTotalSizes == { t \in TotalSizes : t <= (MaxSectors - 1) * SECTOR_SIZE }

FirstSectorNbrs == { 100 }

\* Offsets the caller seeks to (offsets at and past the end included).
SeekOffsets == { s * SECTOR_SIZE : s \in 0 .. MaxSectors } \cup { Delta }

\* Offsets around the end of an extent: the last byte, the end, and past it.
EdgeOffsets(total) == { total - 1, total, total + 1 }

\* Extents and first sectors for the queries of the sector mapping.
LbaTotalSizes == { t \in { s * SECTOR_SIZE + d : s \in 0 .. MaxSectors, d \in {-1, 0, 1} } : t >= 1 }

LbaFirstSectorNbrs == { 0, 100 }

\* Sizes the caller writes.
WriteSizes(total) == { Delta, SECTOR_SIZE, SECTOR_SIZE + 1, total }

\* Sizes of the pieces a sequential fill is written in: pieces that end inside
\* a sector, pieces that bring the offset back to a sector boundary, whole
\* sectors, more than a sector, and everything at once.
FillSizes(total) ==
    { Delta, SECTOR_SIZE - Delta, SECTOR_SIZE - ShortBy, SECTOR_SIZE, SECTOR_SIZE + Delta, total }

VARIABLES
    total_size,        \* state.total_size
    max_calls,         \* number of calls the writer makes in this run
    first_sector_nbr,  \* first_sector_nbr
    slot_mask,         \* SectorPool::slot_mask, as the set of its set bits
    semaphore,         \* SectorPool::semaphore (binary): TRUE when given
    mutex,             \* SectorPool::mutex: "free" or its holder
    sector_nbr,        \* pool[slot].sector_nbr
    data,              \* pool[slot].data, as the set of byte intervals written since it was zeroed
    inflight,          \* slots handed to the block layer, completion callback not yet run
    requests,          \* the LBAs of the requests handed to the block layer, in order
    write_error,       \* write_error
    current_sector,    \* current_sector, as a slot index or NULL
    current_offset,    \* current_offset
    valid_head,        \* state.valid_head
    valid_tail,        \* state.valid_tail
    pc,                \* the writer's position
    op,                \* the writer's current (or last) call
    ret,               \* the value the last finished call returned
    size,              \* write's remaining size
    sync_avoid,        \* sync's sync_avoid
    acquired,          \* the value SectorPool::acquire returned
    calls,             \* number of calls the writer has made
    call_offset,       \* current_offset when the call began
    call_size,         \* argument of the call: write's size, seek's offset
    call_fresh,        \* the call began on a freshly created object
    call_prev_op,      \* the call the writer made before this one
    call_prev_ret,     \* the value that call returned
    call_error,        \* write_error when the call began
    call_fail,         \* a submission attempted by the call failed synchronously
    call_submitted,    \* number of requests the call handed to the block layer
    wcs_in,            \* what the environment did in the write_current_sector of the last step
    wcs_ret,           \* what that write_current_sector returned
    q_offset,          \* argument of the last get_sector_nbr query
    q_lba,             \* its result
    q_bytes,           \* argument of the last has_valid_tail query
    q_has              \* its result

cfgvars == <<total_size, first_sector_nbr, max_calls>>

poolvars == <<slot_mask, semaphore, mutex, sector_nbr, data>>

busvars == <<inflight, requests>>

filevars == <<write_error, current_sector, current_offset, valid_head, valid_tail>>

writervars == <<pc, op, ret, size, sync_avoid, acquired>>

\* What is recorded of the object's state at the entry of a call.
entryvars == <<call_prev_op, call_prev_ret, call_error>>

histvars == <<calls, call_offset, call_size, call_fresh, entryvars, call_fail, call_submitted,
              wcs_in, wcs_ret>>

qvars == <<q_offset, q_lba, q_bytes, q_has>>

vars == <<cfgvars, poolvars, busvars, filevars, writervars, histvars, qvars>>

\* ------------------------------------------------------------ ValidPart

\* An absent optional<ValidPart>.
Absent == [present |-> FALSE, start |-> 0, end |-> 0]

Part(s, e) == [present |-> TRUE, start |-> s, end |-> e]

\* ValidPart::merge: the union when the two ranges overlap or touch.
Merge(this, other) ==
    IF other.start <= this.end /\ other.end >= this.start
    THEN Part(Min(this.start, other.start), Max(this.end, other.end))
    ELSE this

\* ------------------------------------------------------------ sector mapping

\* get_sector_nbr with the end test written offset > total_size.
get_sector_nbr_strict(offset) ==
    LET sector == first_sector_nbr + offset \div SECTOR_SIZE
    IN  IF offset > total_size THEN sector + 1 ELSE sector

\* get_sector_nbr without the step past the last sector at the end of the extent.
get_sector_nbr_plain(offset) == first_sector_nbr + offset \div SECTOR_SIZE

get_sector_nbr(offset) ==
    LET sector == first_sector_nbr + offset \div SECTOR_SIZE
    IN  IF offset >= total_size THEN sector + 1 ELSE sector

\* get_offset answering in sectors instead of bytes.
get_offset_unscaled(nbr) == nbr - first_sector_nbr

get_offset(nbr) == (nbr - first_sector_nbr) * SECTOR_SIZE


\* ------------------------------------------------------------ extend_valid_part

\* extend_valid_part assigning new_part to the tail where it merges it.
extend_valid_part_assign(head, tail, new_part) ==
    LET head1 == IF head.present THEN Merge(head, new_part)
                 ELSE IF new_part.start = 0 THEN new_part
                 ELSE head
        head_end == IF head1.present THEN head1.end ELSE 0
        tail1 == IF new_part.start > head_end THEN new_part
                 ELSE IF tail.present THEN Merge(tail, new_part)
                 ELSE tail
        tail2 == IF head1.present /\ head1.end = total_size THEN head1 ELSE tail1
        head3 == IF head1.present /\ tail2.present THEN Merge(head1, tail2) ELSE head1
        tail3 == IF head1.present /\ tail2.present THEN Merge(tail2, head3) ELSE tail2
    IN  [head |-> head3, tail |-> tail3]

\* extend_valid_part without its last step, "head met with tail?".
extend_valid_part_no_meet(head, tail, new_part) ==
    LET head1 == IF head.present THEN Merge(head, new_part)
                 ELSE IF new_part.start = 0 THEN new_part
                 ELSE head
        head_end == IF head1.present THEN head1.end ELSE 0
        tail1 == IF tail.present THEN Merge(tail, new_part)
                 ELSE IF new_part.start > head_end THEN new_part
                 ELSE tail
        tail2 == IF head1.present /\ head1.end = total_size THEN head1 ELSE tail1
    IN  [head |-> head1, tail |-> tail2]

\* PartialFile::extend_valid_part, without its progress report: the new
\* (valid_head, valid_tail) after new_part was submitted.
extend_valid_part(head, tail, new_part) ==
    LET \* extend head
        head1 == IF head.present THEN Merge(head, new_part)
                 ELSE IF new_part.start = 0 THEN new_part
                 ELSE head
        head_end == IF head1.present THEN head1.end ELSE 0
        \* extend tail
        tail1 == IF tail.present THEN Merge(tail, new_part)
                 ELSE IF new_part.start > head_end THEN new_part
                 ELSE tail
        \* does head spread to the end?
        tail2 == IF head1.present /\ head1.end = total_size THEN head1 ELSE tail1
        \* head met with tail?
        head3 == IF head1.present /\ tail2.present THEN Merge(head1, tail2) ELSE head1
        tail3 == IF head1.present /\ tail2.present THEN Merge(tail2, head3) ELSE tail2
    IN  [head |-> head3, tail |-> tail3]

\* ------------------------------------------------------------ SectorPool

\* SectorPool::SectorPool: slot_mask(~0u << size).
InitialMask == PoolSize .. (MaskBits - 1)

\* std::popcount(slot_mask)
popcount(mask) == Cardinality(mask)

\* std::countr_one(slot_mask): the number of consecutive set bits from bit 0.
countr_one(mask) ==
    IF mask = 0 .. (MaskBits - 1) THEN MaskBits
    ELSE CHOOSE i \in 0 .. (MaskBits - 1) : i \notin mask /\ \A j \in 0 .. (i - 1) : j \in mask

\* SectorPool::is_available_slot: slot_mask has a clear bit.
is_available_slot(mask) == mask # 0 .. (MaskBits - 1)

\* get_available_slot answering the first slot of the pool whatever the mask is.
get_available_slot_first(mask) == 0

\* SectorPool::get_available_slot: the lowest clear bit of slot_mask.
get_available_slot(mask) == countr_one(mask)

\* The condition under which SectorPool::sync(avoid) stops waiting.
pool_synced(mask, avoid) == popcount(mask) = MaskBits - avoid

\* Slots marked in use, and the number of free ones.
InUse == slot_mask \cap Slots

FreeCount == PoolSize - Cardinality(InUse)

\* ------------------------------------------------------------ write_current_sector

\* write_current_sector extending the valid range before it submits.
write_current_sector_eager(cur, nbrs, head, tail, poke_ok, submit_ok) ==
    LET start == get_offset(nbrs[cur])
        end   == Min(start + SECTOR_SIZE, total_size)
        ext   == extend_valid_part(head, tail, Part(start, end))
    IN  IF ~poke_ok THEN [ret |-> FALSE, sent |-> FALSE, head |-> head, tail |-> tail]
        ELSE [ret |-> submit_ok, sent |-> submit_ok, head |-> ext.head, tail |-> ext.tail]

\* write_current_sector submitting without extending the valid range.
write_current_sector_unextended(cur, nbrs, head, tail, poke_ok, submit_ok) ==
    IF poke_ok /\ submit_ok
    THEN [ret |-> TRUE, sent |-> TRUE, head |-> head, tail |-> tail]
    ELSE [ret |-> FALSE, sent |-> FALSE, head |-> head, tail |-> tail]

\* PartialFile::write_current_sector for the slot cur: poke_ok is the outcome of
\* lseek on the pinned descriptor, submit_ok that of usbh_msc_submit_request.
\* sent tells whether the request was handed to the block layer.
write_current_sector(cur, nbrs, head, tail, poke_ok, submit_ok) ==
    IF ~poke_ok THEN [ret |-> FALSE, sent |-> FALSE, head |-> head, tail |-> tail]
    ELSE IF ~submit_ok THEN [ret |-> FALSE, sent |-> FALSE, head |-> head, tail |-> tail]
    ELSE LET start == get_offset(nbrs[cur])
             end   == Min(start + SECTOR_SIZE, total_size)
             ext   == extend_valid_part(head, tail, Part(start, end))
         IN  [ret |-> TRUE, sent |-> TRUE, head |-> ext.head, tail |-> ext.tail]

\* What the environment did in a write_current_sector call.
WcsIn(poke_ok, submit_ok) ==
    IF ~poke_ok THEN "poke_failed" ELSE IF ~submit_ok THEN "rejected" ELSE "accepted"


\* ------------------------------------------------------------ construction

\* PartialFile::PartialFile and SectorPool::SectorPool, on the State (its
\* valid_head and valid_tail) that PartialFile::convert passes.
Constructed(state_head, state_tail) ==
    /\ slot_mask = InitialMask
    /\ semaphore = FALSE
    /\ mutex = "free"
    /\ sector_nbr = [s \in Slots |-> 0]
    /\ data = [s \in Slots |-> {}]
    /\ inflight = {}
    /\ requests = <<>>
    /\ write_error = FALSE
    /\ current_sector = NULL
    /\ current_offset = 0
    /\ valid_head = state_head
    /\ valid_tail = state_tail
    /\ pc = "idle"
    /\ op = "none"
    /\ ret = FALSE
    /\ size = 0
    /\ sync_avoid = 0
    /\ acquired = NULL
    /\ calls = 0
    /\ call_offset = 0
    /\ call_size = 0
    /\ call_fresh = FALSE
    /\ call_prev_op = "none"
    /\ call_prev_ret = FALSE
    /\ call_error = FALSE
    /\ call_fail = FALSE
    /\ call_submitted = 0
    /\ wcs_in = "none"
    /\ wcs_ret = FALSE
    /\ q_offset = NULL
    /\ q_lba = NULL
    /\ q_bytes = NULL
    /\ q_has = FALSE

\* The object PartialFile::create makes: the State is empty.
Created == Constructed(Absent, Absent)

Init ==
    /\ total_size \in SmallTotalSizes
    /\ first_sector_nbr \in FirstSectorNbrs
    /\ max_calls = MaxCalls
    /\ Created

\* The same object, with the larger extents, for the runs against a device
\* that completes every request at once.
InitQuiet ==
    /\ total_size \in TotalSizes
    /\ first_sector_nbr \in FirstSectorNbrs
    /\ max_calls = MaxQuietCalls
    /\ Created

\* A call of the writer begins: what is recorded about it.
Begin(name, n) ==
    /\ calls < max_calls
    /\ calls' = calls + 1
    /\ op' = name
    /\ call_offset' = current_offset
    /\ call_size' = n
    /\ call_fresh' = (op = "none")
    /\ call_prev_op' = op
    /\ call_prev_ret' = ret
    /\ call_error' = write_error
    /\ call_fail' = FALSE
    /\ call_submitted' = 0

\* The call returns v to the caller; the destructor's sync returns to the
\* destructor, which goes on to close(file_lock).
Return(v) ==
    /\ pc' = IF op = "destroy" THEN "d_close" ELSE "idle"
    /\ ret' = v

\* No write_current_sector in this step.
NoWcs ==
    /\ wcs_in' = "none"
    /\ wcs_ret' = FALSE

\* ------------------------------------------------------------ seek

\* seek keeping the current sector whatever the new offset is.
seek_effect_keep(cur, nbrs, offset) == [cur |-> cur, released |-> NULL]

\* What PartialFile::seek(offset) does to current_sector: cur is the slot kept
\* (or NULL), released the slot given back to the pool by discard_current_sector.
seek_effect(cur, nbrs, offset) ==
    LET new_sector == get_sector_nbr(offset)
    IN  IF cur # NULL /\ nbrs[cur] = new_sector
        THEN [cur |-> cur, released |-> NULL]
        ELSE [cur |-> NULL, released |-> cur]

\* SectorPool::release(slot) on the mask; NULL releases nothing.
release(mask, slot) == IF slot = NULL THEN mask ELSE mask \ {slot}

\* PartialFile::seek, called by the user.
Seek(offset) ==
    /\ pc = "idle"
    /\ mutex = "free"
    /\ LET sk == seek_effect(current_sector, sector_nbr, offset)
       IN  /\ current_offset' = offset
           /\ current_sector' = sk.cur
           /\ slot_mask' = release(slot_mask, sk.released)
           /\ semaphore' = (semaphore \/ sk.released # NULL)
    /\ Begin("seek", offset)
    /\ Return(TRUE)
    /\ NoWcs
    /\ UNCHANGED <<cfgvars, mutex, sector_nbr, data, busvars, write_error, valid_head,
                   valid_tail, size, sync_avoid, acquired, qvars>>

\* ------------------------------------------------------------ SectorPool::acquire

\* mutex.lock() at the head of acquire, and after a successful xSemaphoreTake.
AcquireLock ==
    /\ pc \in {"w_acq_lock", "s_acq_lock"}
    /\ mutex = "free"
    /\ mutex' = "writer"
    /\ pc' = IF pc = "w_acq_lock" THEN "w_acq_check" ELSE "s_acq_check"
    /\ NoWcs
    /\ UNCHANGED <<cfgvars, slot_mask, semaphore, sector_nbr, data, busvars, filevars,
                   op, ret, size, sync_avoid, acquired, calls, call_offset, call_size, call_fresh, entryvars,
                   call_fail, call_submitted, qvars>>

\* acquire going to wait for the semaphore with the mutex still locked.
AcquireCheck_locked ==
    /\ pc \in {"w_acq_check", "s_acq_check"}
    /\ mutex = "writer"
    /\ IF is_available_slot(slot_mask)
       THEN LET slot == get_available_slot(slot_mask)
            IN  /\ slot_mask' = slot_mask \cup {slot}
                /\ data' = [data EXCEPT ![slot] = {}]
                /\ acquired' = slot
                /\ mutex' = "free"
                /\ pc' = IF pc = "w_acq_check" THEN "w_acquired" ELSE "s_acquired"
       ELSE /\ pc' = IF pc = "w_acq_check" THEN "w_acq_wait" ELSE "s_acq_wait"
            /\ UNCHANGED <<slot_mask, data, acquired, mutex>>
    /\ NoWcs
    /\ UNCHANGED <<cfgvars, semaphore, sector_nbr, busvars, filevars,
                   op, ret, size, sync_avoid, calls, call_offset, call_size, call_fresh, entryvars,
                   call_fail, call_submitted, qvars>>

\* The loop test of acquire under the mutex: either a slot is taken, marked in
\* use and zeroed, or the mutex is dropped and the writer goes to wait.
AcquireCheck ==
    /\ pc \in {"w_acq_check", "s_acq_check"}
    /\ mutex = "writer"
    /\ mutex' = "free"
    /\ IF is_available_slot(slot_mask)
       THEN LET slot == get_available_slot(slot_mask)
            IN  /\ slot_mask' = slot_mask \cup {slot}
                /\ data' = [data EXCEPT ![slot] = {}]
                /\ acquired' = slot
                /\ pc' = IF pc = "w_acq_check" THEN "w_acquired" ELSE "s_acquired"
       ELSE /\ pc' = IF pc = "w_acq_check" THEN "w_acq_wait" ELSE "s_acq_wait"
            /\ UNCHANGED <<slot_mask, data, acquired>>
    /\ NoWcs
    /\ UNCHANGED <<cfgvars, semaphore, sector_nbr, busvars, filevars,
                   op, ret, size, sync_avoid, calls, call_offset, call_size, call_fresh, entryvars,
                   call_fail, call_submitted, qvars>>

\* xSemaphoreTake in acquire returns pdPASS.
AcquireTake ==
    /\ pc \in {"w_acq_wait", "s_acq_wait"}
    /\ semaphore
    /\ semaphore' = FALSE
    /\ pc' = IF pc = "w_acq_wait" THEN "w_acq_lock" ELSE "s_acq_lock"
    /\ NoWcs
    /\ UNCHANGED <<cfgvars, slot_mask, mutex, sector_nbr, data, busvars, filevars,
                   op, ret, size, sync_avoid, acquired, calls, call_offset, call_size, call_fresh, entryvars,
                   call_fail, call_submitted, qvars>>

\* xSemaphoreTake in acquire times out: acquire returns nullptr.
AcquireTimeout ==
    /\ pc \in {"w_acq_wait", "s_acq_wait"}
    /\ ~semaphore
    /\ acquired' = NULL
    /\ pc' = IF pc = "w_acq_wait" THEN "w_acquired" ELSE "s_acquired"
    /\ NoWcs
    /\ UNCHANGED <<cfgvars, poolvars, busvars, filevars,
                   op, ret, size, sync_avoid, calls, call_offset, call_size, call_fresh, entryvars,
                   call_fail, call_submitted, qvars>>


\* ------------------------------------------------------------ write

\* One pass of write's loop body from "write data to the sector buffer" to
\* "advance", on the sector buffer cur whose pool entries are nbrs: the copy
\* into the buffer, the fatal check, the flush and the seek.
WriteFill(cur, nbrs, poke_ok, submit_ok) ==
    LET sector_offset    == current_offset % SECTOR_SIZE
        sector_remaining == SECTOR_SIZE - sector_offset
        write_size       == Min(size, sector_remaining)
        copied           == [data EXCEPT ![cur] = @ \cup {<<sector_offset, sector_offset + write_size>>}]
        next_offset      == current_offset + write_size
        next_sector_nbr  == get_sector_nbr(next_offset)
        flush            == next_sector_nbr # nbrs[cur]
        w  == write_current_sector(cur, nbrs, valid_head, valid_tail, poke_ok, submit_ok)
        sk == seek_effect(IF flush THEN NULL ELSE cur, nbrs, next_offset)
    IN  /\ data' = copied
        /\ sector_nbr' = nbrs
        /\ IF next_offset > total_size
           THEN \* fatal_error does not return
                /\ pc' = "aborted"
                /\ current_sector' = cur
                /\ NoWcs
                /\ poke_ok /\ submit_ok
                /\ UNCHANGED <<current_offset, valid_head, valid_tail, busvars, slot_mask,
                               semaphore, size, ret, call_fail, call_submitted>>
           ELSE /\ IF flush
                   THEN /\ valid_head' = w.head
                        /\ valid_tail' = w.tail
                        /\ inflight' = IF w.sent THEN inflight \cup {cur} ELSE inflight
                        /\ requests' = IF w.sent THEN Append(requests, nbrs[cur]) ELSE requests
                        /\ call_submitted' = IF w.sent THEN call_submitted + 1 ELSE call_submitted
                        /\ call_fail' = (call_fail \/ ~w.ret)
                        /\ wcs_in' = WcsIn(poke_ok, submit_ok)
                        /\ wcs_ret' = w.ret
                   ELSE /\ poke_ok /\ submit_ok
                        /\ NoWcs
                        /\ UNCHANGED <<valid_head, valid_tail, busvars, call_submitted, call_fail>>
                /\ current_sector' = sk.cur
                /\ current_offset' = next_offset
                /\ slot_mask' = release(slot_mask, sk.released)
                /\ semaphore' = (semaphore \/ sk.released # NULL)
                /\ size' = size - write_size
                /\ pc' = "w_loop"
                /\ UNCHANGED ret

\* write entered without the write_error test.
WriteCall_unchecked(n) ==
    /\ pc = "idle"
    /\ Begin("write", n)
    /\ size' = n
    /\ pc' = "w_loop"
    /\ UNCHANGED ret
    /\ NoWcs
    /\ UNCHANGED <<cfgvars, poolvars, busvars, filevars, sync_avoid, acquired, qvars>>

\* PartialFile::write is called with size n: the write_error test.
WriteCall(n) ==
    /\ pc = "idle"
    /\ Begin("write", n)
    /\ size' = n
    /\ IF write_error THEN Return(FALSE) ELSE pc' = "w_loop" /\ UNCHANGED ret
    /\ NoWcs
    /\ UNCHANGED <<cfgvars, poolvars, busvars, filevars, sync_avoid, acquired, qvars>>

\* The head of write's loop: the end of the loop, the past-the-end test and the
\* call of acquire when no sector buffer is open, the loop body when one is.
WriteLoop(outcomes) ==
    /\ pc = "w_loop"
    /\ IF size = 0
       THEN /\ Return(TRUE)
            /\ NoWcs
            /\ UNCHANGED <<poolvars, busvars, filevars, size, call_fail, call_submitted>>
       ELSE IF current_sector = NULL
       THEN /\ IF current_offset >= total_size
               THEN Return(FALSE)
               ELSE pc' = "w_acq_lock" /\ UNCHANGED ret
            /\ NoWcs
            /\ UNCHANGED <<poolvars, busvars, filevars, size, call_fail, call_submitted>>
       ELSE /\ mutex = "free"
            /\ \E poke_ok, submit_ok \in outcomes :
                   WriteFill(current_sector, sector_nbr, poke_ok, submit_ok)
            /\ UNCHANGED <<mutex, write_error>>
    /\ UNCHANGED <<cfgvars, op, sync_avoid, acquired, calls, call_offset, call_size,
                   call_fresh, entryvars, qvars>>

\* acquire has returned to write: nullptr ends the call, a slot becomes
\* current_sector, gets its sector_nbr and the loop body runs on it.
WriteAcquired(outcomes) ==
    /\ pc = "w_acquired"
    /\ IF acquired = NULL
       THEN /\ Return(FALSE)
            /\ NoWcs
            /\ UNCHANGED <<poolvars, busvars, filevars, size, call_fail, call_submitted>>
       ELSE /\ mutex = "free"
            /\ \E poke_ok, submit_ok \in outcomes :
                   WriteFill(acquired,
                             [sector_nbr EXCEPT ![acquired] = get_sector_nbr(current_offset)],
                             poke_ok, submit_ok)
            /\ UNCHANGED <<mutex, write_error>>
    /\ UNCHANGED <<cfgvars, op, sync_avoid, acquired, calls, call_offset, call_size,
                   call_fresh, entryvars, qvars>>


\* ------------------------------------------------------------ sync

\* PartialFile::sync is called: with a current sector it sets sync_avoid and
\* calls acquire for the copy, without one it goes to SectorPool::sync(0).
SyncCall ==
    /\ pc = "idle"
    /\ Begin("sync", 0)
    /\ IF current_sector # NULL
       THEN sync_avoid' = 1 /\ pc' = "s_acq_lock"
       ELSE sync_avoid' = 0 /\ pc' = "ps_lock"
    /\ NoWcs
    /\ UNCHANGED <<cfgvars, poolvars, busvars, filevars, ret, size, acquired, qvars>>

\* sync going on with the sector it has just submitted.
sync_current_sector_original(original, copied) == original

\* The sector sync goes on with after write_current_sector:
\* current_sector = copied_sector.
sync_current_sector(original, copied) == copied

\* acquire has returned to sync: nullptr ends the call; otherwise the buffer
\* is copied, the original is submitted and the copy becomes current_sector.
SyncAcquired(outcomes) ==
    /\ pc = "s_acquired"
    /\ IF acquired = NULL
       THEN /\ Return(FALSE)
            /\ NoWcs
            /\ UNCHANGED <<sector_nbr, data, busvars, current_sector, valid_head, valid_tail,
                           call_fail, call_submitted>>
       ELSE \E poke_ok, submit_ok \in outcomes :
              LET w == write_current_sector(current_sector, sector_nbr, valid_head,
                                            valid_tail, poke_ok, submit_ok)
              IN  /\ data' = [data EXCEPT ![acquired] = data[current_sector]]
                  /\ sector_nbr' = [sector_nbr EXCEPT ![acquired] = sector_nbr[current_sector]]
                  /\ valid_head' = w.head
                  /\ valid_tail' = w.tail
                  /\ inflight' = IF w.sent THEN inflight \cup {current_sector} ELSE inflight
                  /\ requests' = IF w.sent THEN Append(requests, sector_nbr[current_sector])
                                 ELSE requests
                  /\ call_submitted' = IF w.sent THEN call_submitted + 1 ELSE call_submitted
                  /\ call_fail' = (call_fail \/ ~w.ret)
                  /\ wcs_in' = WcsIn(poke_ok, submit_ok)
                  /\ wcs_ret' = w.ret
                  /\ current_sector' = sync_current_sector(current_sector, acquired)
                  /\ IF w.ret THEN pc' = "ps_lock" /\ UNCHANGED ret ELSE Return(FALSE)
    /\ UNCHANGED <<cfgvars, slot_mask, semaphore, mutex, write_error, current_offset,
                   op, size, sync_avoid, acquired, calls, call_offset, call_size, call_fresh, entryvars, qvars>>

\* mutex.lock() at the head of SectorPool::sync, and after a successful xSemaphoreTake.
PoolSyncLock ==
    /\ pc = "ps_lock"
    /\ mutex = "free"
    /\ mutex' = "writer"
    /\ pc' = "ps_check"
    /\ NoWcs
    /\ UNCHANGED <<cfgvars, slot_mask, semaphore, sector_nbr, data, busvars, filevars,
                   op, ret, size, sync_avoid, acquired, calls, call_offset, call_size, call_fresh, entryvars,
                   call_fail, call_submitted, qvars>>

\* The loop test of SectorPool::sync(sync_avoid) under the mutex: it returns
\* true, or drops the mutex and waits.
PoolSyncCheck ==
    /\ pc = "ps_check"
    /\ mutex = "writer"
    /\ mutex' = "free"
    /\ pc' = IF pool_synced(slot_mask, sync_avoid) THEN "s_synced" ELSE "ps_wait"
    /\ NoWcs
    /\ UNCHANGED <<cfgvars, slot_mask, semaphore, sector_nbr, data, busvars, filevars,
                   op, ret, size, sync_avoid, acquired, calls, call_offset, call_size, call_fresh, entryvars,
                   call_fail, call_submitted, qvars>>

\* xSemaphoreTake in SectorPool::sync returns pdPASS.
PoolSyncTake ==
    /\ pc = "ps_wait"
    /\ semaphore
    /\ semaphore' = FALSE
    /\ pc' = "ps_lock"
    /\ NoWcs
    /\ UNCHANGED <<cfgvars, slot_mask, mutex, sector_nbr, data, busvars, filevars,
                   op, ret, size, sync_avoid, acquired, calls, call_offset, call_size, call_fresh, entryvars,
                   call_fail, call_submitted, qvars>>

\* xSemaphoreTake in SectorPool::sync times out: it returns false, and so does
\* PartialFile::sync.
PoolSyncTimeout ==
    /\ pc = "ps_wait"
    /\ ~semaphore
    /\ Return(FALSE)
    /\ NoWcs
    /\ UNCHANGED <<cfgvars, poolvars, busvars, filevars,
                   op, size, sync_avoid, acquired, calls, call_offset, call_size, call_fresh, entryvars,
                   call_fail, call_submitted, qvars>>

\* SectorPool::sync returned true: PartialFile::sync returns !write_error.
SyncReturn ==
    /\ pc = "s_synced"
    /\ Return(~write_error)
    /\ NoWcs
    /\ UNCHANGED <<cfgvars, poolvars, busvars, filevars,
                   op, size, sync_avoid, acquired, calls, call_offset, call_size, call_fresh, entryvars,
                   call_fail, call_submitted, qvars>>

\* ------------------------------------------------------------ completion

\* usbh_msc_finished as it would be if a failed completion took back the
\* ranges extended at submission.
Finished_retracting(slot, ok) ==
    /\ slot \in inflight
    /\ mutex = "free"
    /\ inflight' = inflight \ {slot}
    /\ write_error' = (write_error \/ ~ok)
    /\ slot_mask' = release(slot_mask, slot)
    /\ semaphore' = TRUE
    /\ NoWcs
    /\ valid_head' = IF ok THEN valid_head ELSE Absent
    /\ valid_tail' = IF ok THEN valid_tail ELSE Absent
    /\ UNCHANGED <<cfgvars, mutex, sector_nbr, data, requests, current_sector, current_offset,
                   writervars, calls, call_offset, call_size,
                   call_fresh, entryvars, call_fail, call_submitted, qvars>>

\* The block layer invokes usb_msc_write_finished_callback for the request in
\* slot with status ok: usbh_msc_finished sets write_error on a failure, then
\* SectorPool::release(slot) clears the slot's bit under the mutex and gives
\* the semaphore.
Finished(slot, ok) ==
    /\ slot \in inflight
    /\ mutex = "free"
    /\ inflight' = inflight \ {slot}
    /\ write_error' = (write_error \/ ~ok)
    /\ slot_mask' = release(slot_mask, slot)
    /\ semaphore' = TRUE
    /\ NoWcs
    /\ UNCHANGED <<cfgvars, mutex, sector_nbr, data, requests, current_sector, current_offset,
                   valid_head, valid_tail, writervars, calls, call_offset, call_size,
                   call_fresh, entryvars, call_fail, call_submitted, qvars>>

\* ------------------------------------------------------------ destruction

\* PartialFile::~PartialFile up to its call of sync(): discard_current_sector
\* releases the current sector's slot, and sync, finding no current sector,
\* goes to SectorPool::sync(0).
Destroy ==
    /\ pc = "idle"
    /\ mutex = "free"
    /\ Begin("destroy", 0)
    /\ current_sector' = NULL
    /\ slot_mask' = release(slot_mask, current_sector)
    /\ semaphore' = (semaphore \/ current_sector # NULL)
    /\ sync_avoid' = 0
    /\ pc' = "ps_lock"
    /\ NoWcs
    /\ UNCHANGED <<cfgvars, mutex, sector_nbr, data, busvars, write_error, current_offset,
                   valid_head, valid_tail, ret, size, acquired, qvars>>

\* The destructor's sync() has returned (its result is not looked at):
\* close(file_lock) releases the descriptor pin.
Close ==
    /\ pc = "d_close"
    /\ pc' = "closed"
    /\ NoWcs
    /\ UNCHANGED <<cfgvars, poolvars, busvars, filevars, op, ret, size, sync_avoid, acquired,
                   calls, call_offset, call_size, call_fresh, entryvars, call_fail,
                   call_submitted, qvars>>

\* ------------------------------------------------------------ specification

\* The writer's steps; outcomes are the results the descriptor poke and the
\* submission may have.
Writer(outcomes) ==
    \/ \E offset \in SeekOffsets : Seek(offset)
    \/ \E n \in WriteSizes(total_size) : WriteCall(n)
    \/ WriteLoop(outcomes)
    \/ WriteAcquired(outcomes)
    \/ SyncCall
    \/ SyncAcquired(outcomes)
    \/ AcquireLock
    \/ AcquireCheck
    \/ PoolSyncLock
    \/ PoolSyncCheck
    \/ PoolSyncTake
    \/ PoolSyncTimeout
    \/ SyncReturn

\* The writer against a device that may reject a submission, fail a request,
\* and complete the requests in flight at any time and in any order.
Next ==
    \/ Writer(BOOLEAN)
    \/ AcquireTake
    \/ AcquireTimeout
    \/ \E slot \in Slots, ok \in BOOLEAN : Finished(slot, ok)

Spec == Init /\ [][Next]_vars

\* The writer against a device that accepts every submission and completes it
\* successfully before the writer's next step.  A free slot always exists
\* then, so acquire never waits.
NextQuiet ==
    \/ inflight = {} /\ Writer({TRUE})
    \/ \E slot \in Slots : Finished(slot, TRUE)

SpecQuiet == InitQuiet /\ [][NextQuiet]_vars

\* The quiet device again, with an extent one sector longer than the others
\* and one more call.
InitWide ==
    /\ total_size = (MaxSectors + 1) * SECTOR_SIZE
    /\ first_sector_nbr \in FirstSectorNbrs
    /\ max_calls = MaxQuietCalls + 1
    /\ Created

SpecWide == InitWide /\ [][NextQuiet]_vars

\* A fresh object that is only written to, call after call, against the quiet
\* device.
InitFill ==
    /\ total_size \in TotalSizes
    /\ first_sector_nbr \in FirstSectorNbrs
    /\ max_calls = MaxFillCalls
    /\ Created

NextFill ==
    \/ inflight = {} /\ \E n \in FillSizes(total_size) : WriteCall(n)
    \/ inflight = {} /\ WriteLoop({TRUE})
    \/ inflight = {} /\ WriteAcquired({TRUE})
    \/ inflight = {} /\ AcquireLock
    \/ inflight = {} /\ AcquireCheck
    \/ \E slot \in Slots : Finished(slot, TRUE)

SpecFill == InitFill /\ [][NextFill]_vars

\* The device of Next when it is timely: every request handed to it is
\* completed before a USBH_MSC_RW_MAX_DELAY wait of the writer runs out, so a
\* wait (in acquire, in SectorPool::sync) times out only with nothing in flight.
NextTimely ==
    \/ (pc = "ps_wait" /\ ~semaphore => inflight = {}) /\ Writer(BOOLEAN)
    \/ AcquireTake
    \/ inflight = {} /\ AcquireTimeout
    \/ \E slot \in Slots, ok \in BOOLEAN : Finished(slot, ok)

SpecTimely == Init /\ [][NextTimely]_vars

\* A fresh object of up to MaxSectors + 1 whole sectors, written one whole
\* sector at a time in any order against the quiet device: a seek to the start
\* of a sector, then a write of SECTOR_SIZE bytes, with calls enough to write
\* every sector once.
InitOrder ==
    /\ total_size \in { s * SECTOR_SIZE : s \in 1 .. (MaxSectors + 1) }
    /\ first_sector_nbr \in FirstSectorNbrs
    /\ max_calls = 2 * (MaxSectors + 1)
    /\ Created

NextOrder ==
    \/ inflight = {} /\ \E s \in 0 .. (total_size \div SECTOR_SIZE - 1) : Seek(s * SECTOR_SIZE)
    \/ inflight = {} /\ WriteCall(SECTOR_SIZE)
    \/ inflight = {} /\ WriteLoop({TRUE})
    \/ inflight = {} /\ WriteAcquired({TRUE})
    \/ inflight = {} /\ AcquireLock
    \/ inflight = {} /\ AcquireCheck
    \/ \E slot \in Slots : Finished(slot, TRUE)

SpecOrder == InitOrder /\ [][NextOrder]_vars

\* The quiet device again, with a caller that also seeks to the offsets around
\* the end of the extent.
NextExtent ==
    \/ inflight = {} /\ Writer({TRUE})
    \/ inflight = {} /\ \E offset \in EdgeOffsets(total_size) : Seek(offset)
    \/ \E slot \in Slots : Finished(slot, TRUE)

SpecExtent == InitQuiet /\ [][NextExtent]_vars

\* The writer against a device that may reject a submission and that reports
\* a failure for every request it completes.
NextFailing ==
    \/ Writer(BOOLEAN)
    \/ AcquireTake
    \/ AcquireTimeout
    \/ \E slot \in Slots : Finished(slot, FALSE)

SpecFailing == Init /\ [][NextFailing]_vars

\* The object's whole life: the calls of the writer, then its destruction, with
\* the device as in Next.
NextLife ==
    \/ Next
    \/ Destroy
    \/ Close

SpecLife == Init /\ [][NextLife]_vars

\* ------------------------------------------------------------ sector mapping alone

InitLba ==
    /\ total_size \in LbaTotalSizes
    /\ first_sector_nbr \in LbaFirstSectorNbrs
    /\ max_calls = 0
    /\ Created

\* PartialFile::get_sector_nbr(offset) is evaluated, once in a run.
GetSectorNbr(offset) ==
    /\ q_offset = NULL
    /\ q_offset' = offset
    /\ q_lba' = get_sector_nbr(offset)
    /\ UNCHANGED <<cfgvars, poolvars, busvars, filevars, writervars, histvars, q_bytes, q_has>>

NextLba == \E offset \in 0 .. total_size : GetSectorNbr(offset)

SpecLba == InitLba /\ [][NextLba]_vars

\* ------------------------------------------------------------ has_valid_tail alone

\* size_t has SizeBits bits: its values are 0 .. SizeMax.
SizeMax == 2 ^ SizeBits - 1

\* a - b in size_t: the result wraps modulo 2 ^ SizeBits.
size_sub(a, b) == (a - b) % (SizeMax + 1)

\* PartialFile::has_valid_tail(bytes), on the optional range tail.
has_valid_tail(tail, bytes) ==
    tail.present /\ tail.start <= size_sub(total_size, bytes) /\ tail.end = total_size

\* The optional ranges a State may hold for an extent of total bytes: none, or
\* a range that is not empty.
TailParts(total) ==
    { Absent } \cup
    { part \in { Part(start, end) : start \in 0 .. total, end \in 0 .. total } :
          part.start < part.end }

\* PartialFile::open on a State that has a tail or none.
InitTail ==
    /\ total_size \in 1 .. SizeMax
    /\ first_sector_nbr \in FirstSectorNbrs
    /\ max_calls = 0
    /\ \E tail \in TailParts(total_size) : Constructed(Absent, tail)

\* PartialFile::has_valid_tail(bytes) is evaluated, once in a run.
HasValidTail(bytes) ==
    /\ q_bytes = NULL
    /\ q_bytes' = bytes
    /\ q_has' = has_valid_tail(valid_tail, bytes)
    /\ UNCHANGED <<cfgvars, poolvars, busvars, filevars, writervars, histvars, q_offset, q_lba>>

NextTail == \E bytes \in 0 .. SizeMax : HasValidTail(bytes)

SpecTail == InitTail /\ [][NextTail]_vars

\* ------------------------------------------------------------ properties

\* C1: SectorPool::sync(avoid) returns true only in a state where exactly
\* PoolSize - avoid slots are free, and sync(0) on a pool with no slot in use
\* returns true without waiting.
C1_PoolSyncReturnsWhenDrained ==
    [][ /\ (pc = "ps_check" /\ pc' = "s_synced") => FreeCount = PoolSize - sync_avoid
        /\ (pc = "ps_check" /\ sync_avoid = 0 /\ InUse = {}) => pc' = "s_synced" ]_vars

\* C2: whenever PartialFile::sync has returned true, no request is still in
\* flight and write_error is false.
C2_SyncTrueMeansDrained ==
    (op = "sync" /\ pc = "idle" /\ ret) => (inflight = {} /\ ~write_error)

\* C3: PartialFile::write returns true only if every submission it attempted
\* during the call succeeded synchronously (the poke and the submission).
C3_WriteTrueMeansAllSubmitted ==
    (op = "write" /\ pc = "idle" /\ ret) => ~call_fail

\* C4: when the descriptor poke fails, or the block layer rejects the
\* submission, write_current_sector returns false, no request is handed to the
\* block layer and valid_head / valid_tail are left unchanged.
C4_FailedSubmissionChangesNothing ==
    [][ wcs_in' \in {"poke_failed", "rejected"} =>
            /\ wcs_ret' = FALSE
            /\ inflight' = inflight
            /\ call_submitted' = call_submitted
            /\ valid_head' = valid_head
            /\ valid_tail' = valid_tail ]_vars

\* C4, witness: the poke failed for the second sector of a write, after the
\* first one was submitted: the head stays at the end of the first sector.
C4_Witness ==
    /\ wcs_in = "poke_failed"
    /\ ~wcs_ret
    /\ op = "write"
    /\ call_submitted = 1
    /\ current_offset > SECTOR_SIZE
    /\ valid_head = Part(0, SECTOR_SIZE)

\* C5: a write call with current_offset + size > total_size never returns (it
\* ends in the fatal abort).
C5_PastEndWriteIsFatal ==
    ~(op = "write" /\ pc = "idle" /\ call_offset + call_size > total_size)

\* C6: valid_head, if present, starts at 0, and valid_tail, if present, ends at
\* total_size.
C6_HeadAtStartTailAtEnd ==
    /\ valid_head.present => valid_head.start = 0
    /\ valid_tail.present => valid_tail.end = total_size

\* new covers old, for two optional ranges: once present it stays present, and
\* its range only grows.
Covers(new, old) ==
    old.present => (new.present /\ new.start <= old.start /\ new.end >= old.end)

\* C7: valid_head and valid_tail never shrink across any step.
C7_RangesNeverShrink ==
    [][ Covers(valid_head', valid_head) /\ Covers(valid_tail', valid_tail) ]_vars

\* C7, witness: a tail that exists apart from the head and has grown beyond the
\* sector that created it.
C7_Witness ==
    /\ valid_tail.present
    /\ valid_tail # valid_head
    /\ valid_tail.end - valid_tail.start > SECTOR_SIZE

\* C8: valid_head and valid_tail are either disjoint and non-touching, or the
\* same range.
C8_DisjointOrUnified ==
    (valid_head.present /\ valid_tail.present /\ valid_head.end >= valid_tail.start)
        => valid_head = valid_tail

\* C8, witness: head and tail have met short of the end of the extent and are
\* the one merged range.
C8_Witness ==
    /\ valid_head.present
    /\ valid_tail = valid_head
    /\ valid_head.end < total_size
    /\ valid_head.end > SECTOR_SIZE

\* C9: for offset < total_size, get_sector_nbr(offset) is first_sector_nbr +
\* offset / SECTOR_SIZE; for offset = total_size it is above the last data sector.
C9_SectorMapping ==
    q_offset # NULL =>
        /\ q_offset < total_size => q_lba = first_sector_nbr + q_offset \div SECTOR_SIZE
        /\ q_offset = total_size =>
               q_lba > first_sector_nbr + (total_size - 1) \div SECTOR_SIZE

\* C9, witness: the query at the end of an extent that ends inside a sector.
C9_Witness ==
    /\ q_offset = total_size
    /\ total_size % SECTOR_SIZE # 0
    /\ total_size > SECTOR_SIZE

\* The first call on a freshly created object was a write of at most
\* total_size bytes, and it has returned true.
FreshWriteDone ==
    /\ op = "write"
    /\ pc = "idle"
    /\ call_fresh
    /\ call_size <= total_size
    /\ ret

\* C10 as stated: such a write of N bytes has submitted N / SECTOR_SIZE sectors,
\* and holds a current sector iff N mod SECTOR_SIZE # 0.
C10_FlushPerBoundary ==
    FreshWriteDone =>
        /\ call_submitted = call_size \div SECTOR_SIZE
        /\ (current_sector # NULL) <=> (call_size % SECTOR_SIZE # 0)

\* C10, amended: a write that ends at total_size inside a sector flushes that
\* last short sector too, and then holds no current sector.
C10_FlushPerBoundaryOrEnd ==
    FreshWriteDone =>
        LET short_end == call_size = total_size /\ call_size % SECTOR_SIZE # 0
        IN  /\ call_submitted = call_size \div SECTOR_SIZE + (IF short_end THEN 1 ELSE 0)
            /\ (current_sector # NULL) <=> (call_size % SECTOR_SIZE # 0 /\ ~short_end)

\* C10, witness: a fresh write of the whole of an extent that ends inside a sector.
C10_Witness ==
    /\ FreshWriteDone
    /\ call_size = total_size
    /\ total_size % SECTOR_SIZE # 0
    /\ total_size > SECTOR_SIZE

\* C11: a sync that directly follows a sync returns what the first one returned
\* and hands no request to the block layer, a held current sector included.
C11_SecondSyncDoesNothing ==
    (pc = "idle" /\ op = "sync" /\ call_prev_op = "sync") =>
        (ret = call_prev_ret /\ call_submitted = 0)

\* C12: write_error, once set, is never cleared, and a write or a sync that
\* began with write_error set returns false.
C12_WriteErrorSticky ==
    [][ /\ write_error => write_error'
        /\ (call_error' /\ pc' = "idle" /\ op' \in {"write", "sync"}) => ~ret' ]_vars

\* C12, witness: a completion failed, and a sync called after it has returned
\* false with nothing in flight and no current sector.
C12_Witness ==
    /\ call_error
    /\ write_error
    /\ op = "sync"
    /\ pc = "idle"
    /\ ~ret
    /\ call_prev_op = "write"
    /\ inflight = {}
    /\ current_sector = NULL

\* C13: once write_error is set, no step of the writer hands a request to the
\* block layer.
C13_NoSubmissionAfterError ==
    [][ write_error => wcs_in' # "accepted" ]_vars

\* C14: a seek(offset) returns true at once with current_offset = offset, hands
\* nothing to the block layer and leaves valid_head / valid_tail alone; a
\* current sector whose LBA is get_sector_nbr(offset) is kept with its
\* contents, any other is released to the pool unsubmitted and current_sector
\* becomes empty.
C14_SeekFrame ==
    [][ (op' = "seek" /\ calls' = calls + 1) =>
            LET offset == call_size'
            IN  /\ pc' = "idle"
                /\ ret' = TRUE
                /\ current_offset' = offset
                /\ inflight' = inflight
                /\ requests' = requests
                /\ valid_head' = valid_head
                /\ valid_tail' = valid_tail
                /\ IF current_sector # NULL /\ sector_nbr[current_sector] = get_sector_nbr(offset)
                   THEN /\ current_sector' = current_sector
                        /\ data' = data
                        /\ sector_nbr' = sector_nbr
                        /\ slot_mask' = slot_mask
                   ELSE /\ current_sector' = NULL
                        /\ slot_mask' = slot_mask \ {current_sector} ]_vars

\* C14, witness: a seek back to the start of the sector being filled, with the
\* sector before it still in flight, has kept the buffer.
C14_Witness ==
    /\ op = "seek"
    /\ pc = "idle"
    /\ current_offset = SECTOR_SIZE
    /\ current_sector # NULL
    /\ data[current_sector] # {}
    /\ inflight # {}

\* C15: the destructor leaves no current sector and submits nothing, and when
\* it comes to close(file_lock) no request is in flight.
C15_CloseAfterDrain ==
    op = "destroy" =>
        /\ current_sector = NULL
        /\ call_submitted = 0
        /\ pc = "d_close" => inflight = {}

\* The writer is back from SectorPool::acquire with a slot.
AcquireReturned(at, slot) == at \in {"w_acquired", "s_acquired"} /\ slot # NULL

\* C16: the slot acquire returns was free when it was selected under the
\* mutex and is marked in use when the mutex is dropped; on return, and until
\* the writer uses it, it is marked in use, is neither the current sector nor
\* in flight (no earlier acquire's slot, unless released since), and its data
\* is all zero, whatever completion callbacks run in between.
C16_AcquireExclusive ==
    [][ /\ (pc \in {"w_acq_check", "s_acq_check"} /\ AcquireReturned(pc', acquired')) =>
               /\ mutex = "writer"
               /\ acquired' \in Slots
               /\ acquired' \notin slot_mask
               /\ acquired' \in slot_mask'
        /\ AcquireReturned(pc', acquired') =>
               /\ acquired' \in slot_mask'
               /\ acquired' # current_sector'
               /\ acquired' \notin inflight'
               /\ data'[acquired'] = {} ]_vars

\* C16, witness: acquire has returned slot 0, released by a completion
\* callback and taken again, while slot 1 is still in flight.
C16_Witness ==
    /\ AcquireReturned(pc, acquired)
    /\ acquired = 0
    /\ inflight = {1}
    /\ Len(requests) >= 2

\* C17: the current sector is never a slot in flight, and no slot the writer
\* is about to write into (the current sector in write's loop, the slot
\* acquire returned to write or to sync) is in flight.
C17_WriterBufferNotInFlight ==
    /\ current_sector \notin inflight
    /\ AcquireReturned(pc, acquired) => acquired \notin inflight
    /\ \A slot \in inflight :
           /\ slot \in slot_mask
           /\ ~(pc \in {"w_acq_check", "s_acq_check"} /\ get_available_slot(slot_mask) = slot)

\* C17, witness: sync has submitted the sector being filled and goes on with
\* its copy in another slot, while the original is in flight.
C17_Witness ==
    /\ op = "sync"
    /\ call_submitted = 1
    /\ current_sector # NULL
    /\ data[current_sector] # {}
    /\ \E slot \in inflight : sector_nbr[slot] = sector_nbr[current_sector]

\* The bytes [start, end) are inside valid_head or inside valid_tail.
InValidPart(head, tail, start, end) ==
    \/ head.present /\ head.start <= start /\ end <= head.end
    \/ tail.present /\ tail.start <= start /\ end <= tail.end

\* What sync's submission of the held current sector does apart from the
\* valid range: one request, for the sector's LBA L, in the buffer as the writer
\* filled it (zero where nothing was written); current_sector is then another
\* slot with the same LBA and contents, and current_offset is unchanged.
SyncSubmitsHeld ==
    LET L == sector_nbr[current_sector]
    IN  /\ requests' = Append(requests, L)
        /\ inflight' = inflight \cup {current_sector}
        /\ call_submitted' = 1
        /\ sector_nbr'[current_sector] = L
        /\ data'[current_sector] = data[current_sector]
        /\ current_sector' \in Slots \ {current_sector}
        /\ sector_nbr'[current_sector'] = L
        /\ data'[current_sector'] = data[current_sector]
        /\ current_offset' = current_offset

\* The step of sync that submits the held current sector.
SyncSubmitStep == pc = "s_acquired" /\ acquired # NULL /\ wcs_in' = "accepted"

Touches(part, start, end) == part.present /\ start <= part.end /\ end >= part.start

FillDone ==
    /\ pc = "idle"
    /\ op = "write"
    /\ ret
    /\ current_offset = total_size

\* The LBAs of the data sectors of the extent, in order.
DataSectors ==
    [i \in 1 .. (total_size + SECTOR_SIZE - 1) \div SECTOR_SIZE |-> first_sector_nbr + i - 1]

\* C19: when consecutive writes from offset 0 of a fresh object have written
\* all total_size bytes, the requests handed to the block layer are the data
\* sectors, each once, in increasing LBA order from first_sector_nbr, valid_head
\* and valid_tail are both [0, total_size), and no current sector is held.
C19_SequentialFill ==
    FillDone =>
        /\ requests = DataSectors
        /\ valid_head = Part(0, total_size)
        /\ valid_tail = valid_head
        /\ current_sector = NULL

\* C19, witness: an extent of MaxSectors sectors ending inside the last one,
\* filled in four or more writes.
C19_Witness ==
    /\ FillDone
    /\ total_size = MaxSectors * SECTOR_SIZE - ShortBy
    /\ calls >= 4

\* C20: has_valid_tail(n) is true exactly when valid_tail exists, ends at
\* total_size and covers the last n bytes: n <= total_size and
\* valid_tail.start <= total_size - n.
C20_HasValidTail ==
    q_bytes # NULL =>
        (q_has <=> /\ valid_tail.present
                   /\ valid_tail.end = total_size
                   /\ q_bytes <= total_size
                   /\ valid_tail.start <= total_size - q_bytes)

\* C21: with a device that completes every request before the writer's wait
\* runs out, SectorPool::acquire never returns nullptr.
C21_AcquireNeverNull ==
    ~(pc \in {"w_acquired", "s_acquired"} /\ acquired = NULL)

\* C22: the writer holds the pool's mutex only for the loop test of acquire or
\* of SectorPool::sync: not while it waits in xSemaphoreTake, and not at a step
\* that calls write_current_sector, so the release of a completion callback
\* finds the mutex free whenever the writer waits.
C22_MutexShortLived ==
    /\ pc \in {"w_acq_wait", "s_acq_wait", "ps_wait"} => mutex = "free"
    /\ pc \in {"w_loop", "w_acquired", "s_acquired"} => mutex = "free"
    /\ mutex = "writer" => pc \in {"w_acq_check", "s_acq_check", "ps_check"}

\* C22, witness: the writer waits in acquire for a slot while both slots are
\* in flight.
C22_Witness ==
    /\ pc = "w_acq_wait"
    /\ ~semaphore
    /\ Cardinality(inflight) = PoolSize

\* C23: a completion callback reporting a failure sets write_error, releases
\* exactly its own slot (bit cleared, semaphore given) and leaves valid_head,
\* valid_tail, current_sector and current_offset as they were; no step ever
\* clears write_error.
C23_FinishedFrame ==
    [][ /\ write_error => write_error'
        /\ (inflight' # inflight /\ inflight' \subseteq inflight) =>
              /\ write_error'
              /\ \E slot \in inflight :
                    /\ inflight' = inflight \ {slot}
                    /\ slot_mask' = slot_mask \ {slot}
              /\ semaphore'
              /\ valid_head' = valid_head
              /\ valid_tail' = valid_tail
              /\ current_sector' = current_sector
              /\ current_offset' = current_offset ]_vars

\* C23, witness: every request has completed, a failure was reported, and the
\* range extended when the first sector was submitted is still recorded.
C23_Witness ==
    /\ write_error
    /\ inflight = {}
    /\ requests # <<>>
    /\ valid_head.present
    /\ valid_head.end >= SECTOR_SIZE

\* C24: every request handed to the block layer addresses a sector of the
\* extent, first_sector_nbr .. first_sector_nbr + (total_size - 1) / SECTOR_SIZE,
\* and whenever the writer holds a current sector, current_offset is inside the
\* extent and the sector is the one current_offset lies in.
C24_NoWriteOutsideExtent ==
    /\ \A i \in 1 .. Len(requests) :
          /\ requests[i] >= first_sector_nbr
          /\ requests[i] <= first_sector_nbr + (total_size - 1) \div SECTOR_SIZE
    /\ current_sector # NULL =>
          /\ current_offset < total_size
          /\ sector_nbr[current_sector] = first_sector_nbr + current_offset \div SECTOR_SIZE

\* C24, witness: with requests already submitted, the caller has sought just
\* past the end of an extent that ends inside its last sector, from an offset
\* in that sector.
C24_Witness ==
    /\ op = "seek"
    /\ pc = "idle"
    /\ total_size % SECTOR_SIZE # 0
    /\ call_size = total_size + 1
    /\ call_offset \div SECTOR_SIZE = (total_size - 1) \div SECTOR_SIZE
    /\ current_offset = total_size + 1
    /\ requests # <<>>

\* C25: every slot marked in use in slot_mask is the writer's current sector,
\* the slot acquire has just handed to the writer, or a request the block
\* layer accepted whose completion callback is still to come.
C25_NoSlotLeak ==
    InUse \subseteq
        (inflight \cup ({current_sector} \ {NULL})
                  \cup (IF pc \in {"w_acquired", "s_acquired"} THEN {acquired} \ {NULL} ELSE {}))

\* C26: on a fresh object written in whole sectors in any order, once every
\* sector of the extent has been submitted at least once, valid_head and
\* valid_tail are both [0, total_size).
C26_CompleteInAnyOrder ==
    (\A i \in DOMAIN DataSectors : \E j \in 1 .. Len(requests) : requests[j] = DataSectors[i])
        => /\ valid_head = Part(0, total_size)
           /\ valid_tail = Part(0, total_size)

=============================================================================
